---------------------------- MODULE Spec2Model ----------------------------
(***************************************************************************)
(* Model of bcbio/cwl/hpc.py: preparation of the Cromwell configuration    *)
(* for local and HPC runs.                                                 *)
(*                                                                         *)
(* Representation of Python values:                                        *)
(*   - a short str (scheduler, queue, dictionary key or value) is a TLA+   *)
(*     string; None is the reserved string None;                           *)
(*   - a raw resource string, which the code parses with str.split, is the *)
(*     sequence of its lexemes: the separators ";" and "=" and the maximal *)
(*     runs of other characters between them;                              *)
(*   - a format template is the sequence of its lexemes: the text outside  *)
(*     the conversions, and for each conversion "%(", the lexemes of its   *)
(*     key up to the matching ")" (text, "(", "%(" and ")"), and the       *)
(*     conversion character after the ")";                                 *)
(*   - a formatted text is the sequence of the pieces it is assembled      *)
(*     from, in order: template text and substituted values;               *)
(*   - a dict is a function from its keys.                                 *)
(***************************************************************************)
EXTENDS Naturals, Sequences, FiniteSets, TLC

VARIABLES args, file, result, previous

vars == << args, file, result, previous >>

(***************************************************************************)
(* Bounds of the checked inputs.                                           *)
(***************************************************************************)
\* the number of ";"-separated sub-tokens over the whole resources list
MaxTokens == 2

(***************************************************************************)
(* Python builtins used by the module.                                     *)
(***************************************************************************)
None == "<None>"

\* bool(x) for a str or None
Truthy(x) == x \notin {None, ""}

EmptyDict == [k \in {} |-> ""]

\* d[k] = v
SetItem(d, k, v) == [x \in DOMAIN d \cup {k} |-> IF x = k THEN v ELSE d[x]]

\* d.update(e)
DictUpdate(d, e) ==
    [x \in DOMAIN d \cup DOMAIN e |-> IF x \in DOMAIN e THEN e[x] ELSE d[x]]

\* d.get(k, default)
DictGet(d, k, default) == IF k \in DOMAIN d THEN d[k] ELSE default

\* str.upper on the scheduler names
Upper_identity(s) == s

Upper(s) ==
    CASE s = "slurm"  -> "SLURM"
      [] s = "sge"    -> "SGE"
      [] s = "lsf"    -> "LSF"
      [] s = "torque" -> "TORQUE"
      [] s = "pbspro" -> "PBSPRO"
      [] s = "unknown" -> "UNKNOWN"
      [] OTHER        -> s

\* the str spelled by a sequence of lexemes
RECURSIVE StrOf(_)
StrOf(lex) == IF lex = << >> THEN "" ELSE Head(lex) \o StrOf(Tail(lex))

\* str.split(sep) on a sequence of lexemes: the lexeme runs between the separators
RECURSIVE Split(_, _)
Split(lex, sep) ==
    IF \A i \in 1..Len(lex) : lex[i] # sep
    THEN << lex >>
    ELSE LET i == CHOOSE j \in 1..Len(lex) :
                      lex[j] = sep /\ \A k \in 1..(j - 1) : lex[k] # sep
         IN  << SubSeq(lex, 1, i - 1) >> \o Split(SubSeq(lex, i + 1, Len(lex)), sep)

\* sep.join(items) for a list of str
RECURSIVE Join(_, _)
Join(sep, items) ==
    IF items = << >> THEN ""
    ELSE IF Len(items) = 1 THEN items[1]
    ELSE items[1] \o sep \o Join(sep, Tail(items))

Ok(v) == [ok |-> TRUE, err |-> "", val |-> v]
Raise(e) == [ok |-> FALSE, err |-> e, val |-> << >>]

\* template % d is modelled in two steps. Parse scans the template as the
\* interpreter does: text is copied, "%(" opens a key, the key runs to the
\* matching ")" (parentheses nest), then the conversion character is read.
\* It yields the items met in order: text, key (a %(key)s conversion), and
\* error where the scan raises.
Item(kind, s) == [kind |-> kind, s |-> s]

RECURSIVE ParseFrom(_, _, _, _, _)
ParseFrom(t, i, depth, key, items) ==
    IF i > Len(t)
    THEN IF depth > 0
         THEN Append(items, Item("error", "ValueError: incomplete format key"))
         ELSE items
    ELSE IF depth = 0
    THEN IF t[i] = "%("
         THEN ParseFrom(t, i + 1, 1, "", items)
         ELSE ParseFrom(t, i + 1, 0, "", Append(items, Item("text", t[i])))
    ELSE IF t[i] = ")"
    THEN IF depth > 1
         THEN ParseFrom(t, i + 1, depth - 1, key \o t[i], items)
         ELSE IF i + 1 > Len(t)
         THEN items \o << Item("key", key), Item("error", "ValueError: incomplete format") >>
         ELSE IF t[i + 1] # "s"
         THEN items \o << Item("key", key),
                          Item("error", "ValueError: unsupported format character") >>
         ELSE ParseFrom(t, i + 2, 0, "", Append(items, Item("key", key)))
    ELSE IF t[i] \in {"(", "%("}
    THEN ParseFrom(t, i + 1, depth + 1, key \o t[i], items)
    ELSE ParseFrom(t, i + 1, depth, key \o t[i], items)

Parse(t) == ParseFrom(t, 1, 0, "", << >>)

\* Fill takes the items in order: a key is looked up in d when it is met
\* (KeyError if absent) and its value substituted; an error item raises.
RECURSIVE FillFrom(_, _, _, _)
FillFrom(items, d, i, out) ==
    IF i > Len(items) THEN Ok(out)
    ELSE IF items[i].kind = "text"
    THEN FillFrom(items, d, i + 1, Append(out, items[i].s))
    ELSE IF items[i].kind = "error"
    THEN Raise(items[i].s)
    ELSE IF items[i].s \notin DOMAIN d
    THEN Raise("KeyError: " \o items[i].s)
    ELSE FillFrom(items, d, i + 1, out \o d[items[i].s])

Fill(items, d) == FillFrom(items, d, 1, << >>)

Format(t, d) == Fill(Parse(t), d)

\* the values of a dict of str as one-piece texts, as Format substitutes them
AsTexts(d) == [k \in DOMAIN d |-> << d[k] >>]

(***************************************************************************)
(* Module constants of hpc.py.                                             *)
(***************************************************************************)
FILESYSTEM_CONFIG ==
    "\n      filesystems {\n        local {\n          localization: [\"soft-link\"]\n          caching {\n            duplication-strategy: [\"soft-link\"]\n            hashing-strategy: \"path\"\n          }\n        }\n      }\n"

CROMWELL_CONFIG ==
    << "\ninclude required(classpath(\"application\"))\n\nsystem {\n  workflow-restart = true\n}\ncall-caching {\n  enabled = true\n}\n\ndatabase {\n  profile = \"slick.jdbc.HsqldbProfile$\"\n  db {\n    driver = \"org.hsqldb.jdbcDriver\"\n    url = \"jdbc:hsqldb:file:",
       "%(",
       "work_dir",
       ")",
       "s",
       "/persist/metadata;shutdown=false;hsqldb.tx=mvcc\"\n    connectionTimeout = 20000\n  }\n}\n\nbackend {\n  providers {\n    Local {\n      config {\n        runtime-attributes = \"\"\"\n        Int? cpu\n        Int? memory_mb\n        ",
       "%(",
       "docker_attrs",
       ")",
       "s",
       "\n        ",
       "%(",
       "cwl_attrs",
       ")",
       "s",
       "\n        \"\"\"\n        ",
       "%(",
       "submit_docker",
       ")",
       "s",
       "\n        ",
       "%(",
       "filesystem",
       ")",
       "s",
       "\n      }\n    }\n",
       "%(",
       "hpc",
       ")",
       "s",
       "\n  }\n}\n" >>

HPC_CONFIGS ==
    [ slurm |->
       << "\n    SLURM {\n      actor-factory = \"cromwell.backend.impl.sfs.config.ConfigBackendLifecycleActorFactory\"\n      config {\n        runtime-attributes = \"\"\"\n        Int cpu = 1\n        Int memory_mb = 2048\n        String queue = \"",
          "%(",
          "queue",
          ")",
          "s",
          "\"\n        String timelimit = \"",
          "%(",
          "timelimit",
          ")",
          "s",
          "\"\n        String account = \"",
          "%(",
          "account",
          ")",
          "s",
          "\"\n        ",
          "%(",
          "docker_attrs",
          ")",
          "s",
          "\n        ",
          "%(",
          "cwl_attrs",
          ")",
          "s",
          "\n        \"\"\"\n        submit = \"\"\"\n            sbatch -J ${job_name} -D ${cwd} -o ${out} -e ${err} -t ${timelimit} -p ${queue}             ${\"--cpus-per-task=\" + cpu} --mem=${memory_mb} ${account}             --wrap \"/usr/bin/env bash ${script}\"\n        \"\"\"\n        kill = \"scancel ${job_id}\"\n        check-alive = \"squeue -j ${job_id}\"\n        job-id-regex = \"Submitted batch job (\\\\d+).*\"\n        ",
          "%(",
          "filesystem",
          ")",
          "s",
          "\n      }\n    }\n" >>,
      sge |->
       << "\n    SGE {\n      actor-factory = \"cromwell.backend.impl.sfs.config.ConfigBackendLifecycleActorFactory\"\n      config {\n        runtime-attributes = \"\"\"\n        Int cpu = 1\n        Int memory_mb = 2048\n        String queue = \"",
          "%(",
          "queue",
          ")",
          "s",
          "\"\n        String pename = \"",
          "%(",
          "pename}s\"\n        String memtype = \"",
          "%(",
          "memtype",
          ")",
          "s\"\n        ",
          "%(",
          "docker_attrs",
          ")",
          "s\n        ",
          "%(",
          "cwl_attrs",
          ")",
          "s\n        \"\"\"\n        submit = \"\"\"\n        qsub -V -w w -j y -N ${job_name} -wd ${cwd}         -o ${out} -e ${err} -q ${queue}         -pe ${pename} ${cpu} ${\"-l \" + mem_type + \"=\" + memory_mb + \"m\"}         /usr/bin/env bash ${script}\n        \"\"\"\n        kill = \"qdel ${job_id}\"\n        check-alive = \"qstat -j ${job_id}\"\n        job-id-regex = \"",
          "(",
          "\\\\d+",
          ")",
          "\"\n        ",
          "%(",
          "filesystem",
          ")",
          "s\n      }\n    }\n" >>,
      pbspro |->
       << "\n    PBSPRO {\n      actor-factory = \"cromwell.backend.impl.sfs.config.ConfigBackendLifecycleActorFactory\"\n      config {\n        runtime-attributes = \"\"\"\n        Int cpu = 1\n        Int memory_mb = 2048\n        String queue = \"",
          "%(",
          "queue",
          ")",
          "s",
          "\"\n        String account = \"",
          "%(",
          "account",
          ")",
          "s",
          "\"\n        String walltime = \"",
          "%(",
          "walltime",
          ")",
          "s",
          "\"\n        ",
          "%(",
          "docker_attrs",
          ")",
          "s",
          "\n        ",
          "%(",
          "cwl_attrs",
          ")",
          "s",
          "\n        \"\"\"\n        submit = \"\"\"\n        qsub -V -l wd -N ${job_name} -o ${out} -e ${err} -q ${queue} -l walltime=${walltime}         ",
          "%(",
          "cpu_and_mem",
          ")",
          "s",
          "         -- /usr/bin/env bash ${script}\n        \"\"\"\n        kill = \"qdel ${job_id}\"\n        check-alive = \"qstat -j ${job_id}\"\n        job-id-regex = \"(\\\\d+)\"\n        ",
          "%(",
          "filesystem",
          ")",
          "s",
          "\n      }\n    }\n\n" >>,
      torque |->
       << "\n    TORQUE {\n      actor-factory = \"cromwell.backend.impl.sfs.config.ConfigBackendLifecycleActorFactory\"\n      config {\n        runtime-attributes = \"\"\"\n        Int cpu = 1\n        Int memory_mb = 2048\n        String queue = \"",
          "%(",
          "queue",
          ")",
          "s",
          "\"\n        String account = \"",
          "%(",
          "account",
          ")",
          "s",
          "\"\n        String walltime = \"",
          "%(",
          "walltime",
          ")",
          "s",
          "\"\n        ",
          "%(",
          "docker_attrs",
          ")",
          "s",
          "\n        ",
          "%(",
          "cwl_attrs",
          ")",
          "s",
          "\n        \"\"\"\n        submit = \"\"\"\n        qsub -V -l wd -N ${job_name} -o ${out} -e ${err} -q ${queue}         -l nodes=1:ppn=${cpu} -l mem=${memory_mb}mb -l walltime=${walltime}         -- /usr/bin/env bash ${script}\n        \"\"\"\n        kill = \"qdel ${job_id}\"\n        check-alive = \"qstat -j ${job_id}\"\n        job-id-regex = \"(\\\\d+)\"\n        ",
          "%(",
          "filesystem",
          ")",
          "s",
          "\n      }\n    }\n" >>
    ]

(***************************************************************************)
(* _args_to_cromwell                                                       *)
(***************************************************************************)
default_config ==
    [ slurm  |-> [timelimit |-> "1-00:00", account |-> ""],
      sge    |-> [memtype |-> "mem_type", pename |-> "smp"],
      lsf    |-> EmptyDict,
      torque |-> [walltime |-> "1-00:00", account |-> ""],
      pbspro |-> [walltime |-> "1-00:00", account |-> "",
                  cpu_and_mem |-> "-l select=1:ncpus=${cpu}:mem=${memory_mb}mb"] ]

prefixes ==
    [p \in {<< "account", "slurm" >>, << "account", "pbspro" >>} |-> "-A "]

custom_anyScheduler ==
    [p \in {<< "noselect", s >> : s \in DOMAIN default_config} |->
        << "cpu_and_mem", "-l ncpus=${cpu} -l mem=${memory_mb}mb" >>]

custom ==
    [p \in {<< "noselect", "pbspro" >>} |->
        << "cpu_and_mem", "-l ncpus=${cpu} -l mem=${memory_mb}mb" >>]

\* the body of the inner loop: one sub-token r applied to config
ApplyToken(config, r, scheduler) ==
    LET parts == Split(r, "=")
    IN  IF Len(parts) = 2
        THEN LET key == StrOf(parts[1])
                 val == StrOf(parts[2])
             IN  SetItem(config, key,
                         DictGet(prefixes, << key, scheduler >>, "") \o val)
        ELSE IF Len(parts) = 1 /\ << StrOf(parts[1]), scheduler >> \in DOMAIN custom
        THEN LET kv == custom[<< StrOf(parts[1]), scheduler >>]
             IN  SetItem(config, kv[1], kv[2])
        ELSE config

\* for r in rs.split(";")
RECURSIVE ApplyTokens_reversed(_, _, _)
ApplyTokens_reversed(config, rs, scheduler) ==
    IF rs = << >> THEN config
    ELSE ApplyToken(ApplyTokens_reversed(config, Tail(rs), scheduler), Head(rs), scheduler)

RECURSIVE ApplyTokens(_, _, _)
ApplyTokens(config, rs, scheduler) ==
    IF rs = << >> THEN config
    ELSE ApplyTokens(ApplyToken(config, Head(rs), scheduler), Tail(rs), scheduler)

\* for rs in args.resources
RECURSIVE ApplyResources(_, _, _)
ApplyResources(config, resources, scheduler) ==
    IF resources = << >> THEN config
    ELSE ApplyResources(ApplyTokens(config, Split(Head(resources), ";"), scheduler),
                        Tail(resources), scheduler)

NoResult == [ok |-> FALSE, err |-> "", cl |-> << >>, conf |-> EmptyDict,
             scheduler |-> None]

\* config["queue"] = args.queue
SetQueue_dropped(config, queue) == config

SetQueue(config, queue) == SetItem(config, "queue", queue)

\* the two checks made when a scheduler is set: the error raised, or "" for none
CheckArgs_queueFirst(a) ==
    IF ~Truthy(a.queue)
    THEN "ValueError: Need to set queue (-q) for running with an HPC scheduler"
    ELSE IF a.scheduler \notin DOMAIN default_config
    THEN "ValueError: Scheduler not yet supported by Cromwell: " \o a.scheduler
    ELSE ""

CheckArgs(a) ==
    IF a.scheduler \notin DOMAIN default_config
    THEN "ValueError: Scheduler not yet supported by Cromwell: " \o a.scheduler
    ELSE IF ~Truthy(a.queue)
    THEN "ValueError: Need to set queue (-q) for running with an HPC scheduler"
    ELSE ""

_args_to_cromwell(a) ==
    LET cl == << "-Dload-control.memory-threshold-in-mb=1" >>
    IN  IF Truthy(a.scheduler)
        THEN IF CheckArgs(a) # ""
             THEN [NoResult EXCEPT !.err = CheckArgs(a)]
             ELSE [ok |-> TRUE, err |-> "",
                   cl |-> Append(cl, "-Dbackend.default=" \o Upper(a.scheduler)),
                   conf |-> ApplyResources(
                                SetQueue(default_config[a.scheduler], a.queue),
                                a.resources, a.scheduler),
                   scheduler |-> a.scheduler]
        ELSE [ok |-> TRUE, err |-> "",
              cl |-> << "-Dbackend.providers.Local.config.concurrent-job-limit=1" >> \o cl,
              conf |-> EmptyDict,
              scheduler |-> None]

(***************************************************************************)
(* args_to_cromwell_cl                                                     *)
(***************************************************************************)
args_to_cromwell_cl(a) ==
    LET r == _args_to_cromwell(a)
    IN  [ok |-> r.ok, err |-> r.err, cl |-> r.cl]

(***************************************************************************)
(* create_cromwell_config                                                  *)
(***************************************************************************)
\* the scan of each template, which does not depend on the values filled in
CROMWELL_PARSED == Parse(CROMWELL_CONFIG)

HPC_PARSED == [s \in DOMAIN HPC_CONFIGS |-> Parse(HPC_CONFIGS[s])]

NoFile == [exists |-> FALSE, data |-> << >>]

\* open(out_file, "w"): the file exists and is empty
Truncated == [exists |-> TRUE, data |-> << >>]

\* open(out_file, "w") followed by write(text)
WriteFile_append(f, text) == [exists |-> TRUE, data |-> f.data \o text]

WriteFile(f, text) == [exists |-> TRUE, data |-> text]

std_args(a) ==
    [ docker_attrs  |-> IF a.no_container THEN ""
                        ELSE Join("\n        ", << "String? docker", "String? docker_user" >>),
      submit_docker |-> IF a.no_container THEN "submit-docker: \"\"" ELSE "",
      cwl_attrs     |-> Join("\n        ",
                             << "Int? cpuMin", "Int? cpuMax", "Int? memoryMin",
                                "Int? memoryMax", "String? outDirMin",
                                "String? outDirMax", "String? tmpDirMin",
                                "String? tmpDirMax" >>),
      filesystem    |-> FILESYSTEM_CONFIG ]

\* conf_args.update(std_args), line 19
conf_args_keepFirst(conf, std) == DictUpdate(std, conf)

conf_args(conf, std) == DictUpdate(conf, std)

\* the value of main_config["hpc"], line 20
hpc_block(scheduler, conf) ==
    IF Truthy(scheduler)
    THEN IF scheduler \notin DOMAIN HPC_CONFIGS
         THEN Raise("KeyError: " \o scheduler)
         ELSE Fill(HPC_PARSED[scheduler], AsTexts(conf))
    ELSE Ok(<< "" >>)

\* main_config after line 22, given the hpc block
main_config(a, work_dir, hpc) ==
    DictUpdate([hpc |-> hpc, work_dir |-> << work_dir >>], AsTexts(std_args(a)))

NoRender == [ok |-> FALSE, err |-> "", text |-> << >>, opened |-> FALSE,
             conf_args |-> EmptyDict, main_config |-> EmptyDict]

\* lines 10-27 without the effect on the file: the outcome, the two
\* substitution dicts, and whether line 26 opened the file
RenderText(a, work_dir) ==
    LET r == _args_to_cromwell(a)
    IN  IF ~r.ok
        THEN [NoRender EXCEPT !.err = r.err]
        ELSE LET ca == conf_args(r.conf, std_args(a))
                 h  == hpc_block(r.scheduler, ca)
             IN  IF ~h.ok
                 THEN [NoRender EXCEPT !.err = h.err, !.conf_args = ca]
                 ELSE LET mc  == main_config(a, work_dir, h.val)
                          out == Fill(CROMWELL_PARSED, mc)
                      IN  [ok |-> out.ok, err |-> out.err, text |-> out.val,
                           opened |-> TRUE, conf_args |-> ca, main_config |-> mc]

\* the file after the call: line 26 opens it for writing once everything but
\* the top-level text is computed, line 27 writes the text
FileAfter_openFirst(f, run) ==
    IF run.ok THEN WriteFile(f, run.text) ELSE Truncated

FileAfter(f, run) ==
    IF ~run.opened THEN f
    ELSE IF run.ok THEN WriteFile(f, run.text)
    ELSE Truncated

create_cromwell_config(a, work_dir, f) ==
    LET run == RenderText(a, work_dir)
    IN  [ok |-> run.ok, err |-> run.err, text |-> run.text,
         conf_args |-> run.conf_args, main_config |-> run.main_config,
         file |-> FileAfter(f, run)]

(***************************************************************************)
(* The requests the functions are called with.                             *)
(***************************************************************************)
WorkDir == "/work"

Schedulers == {None, "slurm", "sge", "lsf", "torque", "pbspro", "unknown"}

Queues == {None, "q1"}

\* sub-tokens of a resource string: empty, bare, key=value, and two "="
Tokens ==
    { << >>,
      << "noselect" >>,
      << "account", "=", "A1" >>,
      << "account", "=", "A2" >>,
      << "cpu_and_mem", "=", "X" >>,
      << "account", "=", "A1", "=", "A2" >> }

\* sub-tokens naming the request's own key and the keys of std_args and
\* main_config
AuxTokens ==
    { << "docker_attrs", "=", "X" >>,
      << "submit_docker", "=", "X" >>,
      << "cwl_attrs", "=", "X" >>,
      << "filesystem", "=", "X" >>,
      << "hpc", "=", "X" >>,
      << "work_dir", "=", "X" >>,
      << "queue", "=", "q2" >> }

\* the resources list whose sub-tokens are ts, in order: sub-token i + 1 follows
\* sub-token i in the same string after a ";" when sameEntry[i], and starts the
\* next string of the list otherwise
RECURSIVE GroupFrom(_, _, _, _)
GroupFrom(ts, sameEntry, i, acc) ==
    IF i > Len(ts) THEN acc
    ELSE IF sameEntry[i - 1]
    THEN GroupFrom(ts, sameEntry, i + 1,
                   [acc EXCEPT ![Len(acc)] = @ \o << ";" >> \o ts[i]])
    ELSE GroupFrom(ts, sameEntry, i + 1, Append(acc, ts[i]))

ResourceLists(tokens) ==
    { << >> } \cup
    UNION { { GroupFrom(ts, g, 2, << ts[1] >>) : g \in [1..(Len(ts) - 1) -> BOOLEAN] } :
            ts \in UNION { [1..n -> tokens] : n \in 1..MaxTokens } }

Requests(queues, tokens) ==
    [ scheduler : Schedulers, queue : queues,
      resources : ResourceLists(tokens), no_container : BOOLEAN ]

\* requests whose queue is the empty string rather than None
EmptyQueueRequests ==
    [ scheduler : Schedulers, queue : {""},
      resources : { << >> } \cup { << t >> : t \in Tokens }, no_container : BOOLEAN ]

\* a configuration left in the work directory by an earlier local run
LocalArgs ==
    [scheduler |-> None, queue |-> None, resources |-> << >>, no_container |-> FALSE]

OldFile == create_cromwell_config(LocalArgs, WorkDir, NoFile).file

(***************************************************************************)
(* State machine: args is the request, file the content of                 *)
(* <work_dir>/bcbio-cromwell.conf, result the outcome of the last call.    *)
(* previous is a history variable set by create_cromwell_config: the file  *)
(* as the call found it and, when the call before was also                 *)
(* create_cromwell_config (render), that call's outcome and text.          *)
(***************************************************************************)
NoCall ==
    [op |-> "none", ok |-> FALSE, err |-> "", cl |-> << >>, conf |-> EmptyDict,
     text |-> << >>, conf_args |-> EmptyDict, main_config |-> EmptyDict]

NoPrevious == [render |-> FALSE, ok |-> FALSE, err |-> "", text |-> << >>,
               file |-> NoFile]

Init ==
    /\ args \in Requests(Queues, Tokens) \cup EmptyQueueRequests
    /\ file \in {NoFile, OldFile}
    /\ result = NoCall
    /\ previous = NoPrevious

\* requests with a queue, whose overrides name the reserved keys, in a work
\* directory without a configuration
InitAux ==
    /\ args \in Requests({"q1"}, AuxTokens)
    /\ file = NoFile
    /\ result = NoCall
    /\ previous = NoPrevious

Render ==
    LET r == create_cromwell_config(args, WorkDir, file)
    IN  /\ result' = [NoCall EXCEPT !.op = "render", !.ok = r.ok, !.err = r.err,
                                    !.text = r.text, !.conf_args = r.conf_args,
                                    !.main_config = r.main_config]
        /\ file' = r.file
        /\ previous' = IF result.op = "render"
                        THEN [render |-> TRUE, ok |-> result.ok, err |-> result.err,
                              text |-> result.text, file |-> file]
                        ELSE [NoPrevious EXCEPT !.file = file]
        /\ UNCHANGED args

ClArgs ==
    LET r == args_to_cromwell_cl(args)
    IN  /\ result' = [NoCall EXCEPT !.op = "cl", !.ok = r.ok, !.err = r.err,
                                    !.cl = r.cl]
        /\ previous' = NoPrevious
        /\ UNCHANGED << args, file >>

ConfigParams ==
    LET r == _args_to_cromwell(args)
    IN  /\ result' = [NoCall EXCEPT !.op = "config", !.ok = r.ok, !.err = r.err,
                                    !.cl = r.cl, !.conf = r.conf]
        /\ previous' = NoPrevious
        /\ UNCHANGED << args, file >>

Next == Render \/ ClArgs \/ ConfigParams

Spec == Init /\ [][Next]_vars

SpecAux == InitAux /\ [][Next]_vars

(***************************************************************************)
(* Vocabulary of the properties.                                           *)
(***************************************************************************)
SupportedSchedulers == {"slurm", "sge", "lsf", "torque", "pbspro"}

UnsupportedScheduler(a) ==
    Truthy(a.scheduler) /\ a.scheduler \notin SupportedSchedulers

MissingQueue(a) ==
    a.scheduler \in SupportedSchedulers /\ ~Truthy(a.queue)

\* a configuration is built: a supported scheduler with a queue
Scheduled(a) == a.scheduler \in SupportedSchedulers /\ Truthy(a.queue)

ErrUnsupported(a) ==
    "ValueError: Scheduler not yet supported by Cromwell: " \o a.scheduler

ErrMissingQueue ==
    "ValueError: Need to set queue (-q) for running with an HPC scheduler"

LocalFlag == "-Dbackend.providers.Local.config.concurrent-job-limit=1"

MemoryFlag == "-Dload-control.memory-threshold-in-mb=1"

BackendFlag(s) ==
    CASE s = "slurm"  -> "-Dbackend.default=SLURM"
      [] s = "sge"    -> "-Dbackend.default=SGE"
      [] s = "lsf"    -> "-Dbackend.default=LSF"
      [] s = "torque" -> "-Dbackend.default=TORQUE"
      [] s = "pbspro" -> "-Dbackend.default=PBSPRO"
      [] OTHER        -> "-Dbackend.default=?"

Elems(seq) == {seq[i] : i \in 1..Len(seq)}

\* the sub-tokens of a resources list, in input order
RECURSIVE Flatten(_)
Flatten(resources) ==
    IF resources = << >> THEN << >>
    ELSE Split(Head(resources), ";") \o Flatten(Tail(resources))

EqCount(tok) == Cardinality({i \in 1..Len(tok) : tok[i] = "="})

EqAt(tok) == CHOOSE i \in 1..Len(tok) : tok[i] = "="

\* for a sub-token with exactly one "="
KeyOf(tok) == StrOf(SubSeq(tok, 1, EqAt(tok) - 1))

ValOf(tok) == StrOf(SubSeq(tok, EqAt(tok) + 1, Len(tok)))

Prefix(key, scheduler) ==
    IF key = "account" /\ scheduler \in {"slurm", "pbspro"} THEN "-A " ELSE ""

NoselectLiteral == "-l ncpus=${cpu} -l mem=${memory_mb}mb"

IsNoselect(tok, scheduler) == tok = << "noselect" >> /\ scheduler = "pbspro"

\* the positions of the key=value sub-tokens that name key
KVWriters(toks, key) ==
    {i \in 1..Len(toks) : EqCount(toks[i]) = 1 /\ KeyOf(toks[i]) = key}

\* the positions of the sub-tokens that write key: key=value, or noselect
\* under pbspro for cpu_and_mem
Writers(toks, key, scheduler) ==
    KVWriters(toks, key) \cup
    {i \in 1..Len(toks) : key = "cpu_and_mem" /\ IsNoselect(toks[i], scheduler)}

Last(S) == CHOOSE i \in S : \A j \in S : j <= i

\* what sub-token tok writes
Written(tok, scheduler) ==
    IF EqCount(tok) = 1 THEN Prefix(KeyOf(tok), scheduler) \o ValOf(tok)
    ELSE NoselectLiteral

\* the per-scheduler defaults with the request's queue
BaseConfig(a) ==
    LET d == default_config[a.scheduler]
    IN  [k \in DOMAIN d \cup {"queue"} |-> IF k = "queue" THEN a.queue ELSE d[k]]

\* the request with the sub-tokens toks, one per resource string
WithTokens(a, toks) == [a EXCEPT !.resources = toks]

\* seq without its element at position i
Without(seq, i) == SubSeq(seq, 1, i - 1) \o SubSeq(seq, i + 1, Len(seq))

AuxKeys == {"docker_attrs", "submit_docker", "cwl_attrs", "filesystem"}

AuxValues(no_container) ==
    [ docker_attrs  |-> IF no_container THEN ""
                        ELSE "String? docker\n        String? docker_user",
      submit_docker |-> IF no_container THEN "submit-docker: \"\"" ELSE "",
      cwl_attrs     |-> "Int? cpuMin\n        Int? cpuMax\n        Int? memoryMin\n        Int? memoryMax\n        String? outDirMin\n        String? outDirMax\n        String? tmpDirMin\n        String? tmpDirMax",
      filesystem    |-> FILESYSTEM_CONFIG ]

(***************************************************************************)
(* Properties.                                                             *)
(***************************************************************************)

\* C1: create_cromwell_config fails exactly on an unsupported scheduler and on
\* a scheduler without a queue; on every other request it completes and
\* leaves its text in <work_dir>/bcbio-cromwell.conf.
C1_RenderTotal ==
    result.op = "render" =>
        /\ result.ok <=> ~(UnsupportedScheduler(args) \/ MissingQueue(args))
        /\ result.ok => file.exists /\ file.data = result.text

\* C2: with scheduler lsf and a queue, create_cromwell_config succeeds and its
\* text is the top-level template filled with an empty hpc block.
C2_LsfEmptyHpc ==
    (result.op = "render" /\ args.scheduler = "lsf" /\ Truthy(args.queue)) =>
        /\ result.ok
        /\ result.text = Format(CROMWELL_CONFIG, main_config(args, WorkDir, << "" >>)).val

\* C3 as stated: for a supported scheduler with a queue, _args_to_cromwell
\* succeeds and config["queue"] is the request's queue, whatever the overrides.
C3_QueueIsRequestQueue ==
    (result.op = "config" /\ Scheduled(args)) =>
        /\ result.ok
        /\ "queue" \in DOMAIN result.conf
        /\ result.conf["queue"] = args.queue

\* C3 amended: for a supported scheduler with a queue, _args_to_cromwell
\* succeeds and config has the key "queue"; its value is the request's queue
\* when no sub-token is queue=value, and the value of the last such sub-token
\* otherwise.
C3_QueueKey ==
    (result.op = "config" /\ Scheduled(args)) =>
        LET toks == Flatten(args.resources)
            W    == KVWriters(toks, "queue")
        IN  /\ result.ok
            /\ "queue" \in DOMAIN result.conf
            /\ result.conf["queue"] = IF W = {} THEN args.queue ELSE ValOf(toks[Last(W)])

C3_Witness ==
    /\ result.op = "config" /\ result.ok
    /\ args.scheduler = "sge" /\ args.queue = "q1"
    /\ args.resources = << << "filesystem", "=", "X", ";", "queue", "=", "q2" >> >>
    /\ result.conf["queue"] = "q2"

\* C4: _args_to_cromwell raises the unsupported-scheduler error when a
\* scheduler outside the five is set, whatever the queue; the missing-queue
\* error when a supported scheduler is set without a queue; and succeeds on
\* every other request.
C4_Failures ==
    result.op = "config" =>
        IF UnsupportedScheduler(args)
        THEN ~result.ok /\ result.err = ErrUnsupported(args)
        ELSE IF MissingQueue(args)
        THEN ~result.ok /\ result.err = ErrMissingQueue
        ELSE result.ok

C4_Witness ==
    /\ result.op = "config" /\ ~result.ok
    /\ args.scheduler = "unknown" /\ ~Truthy(args.queue)
    /\ args.resources # << >>
    /\ result.err = ErrUnsupported(args)

\* C5 as stated: every key named by a key=value sub-token holds the prefix
\* plus the value of the last such sub-token, and a key that no sub-token
\* writes holds its default (the request's queue for "queue").
C5_LastKeyValueWins ==
    (result.op = "config" /\ Scheduled(args)) =>
        LET toks == Flatten(args.resources)
            base == BaseConfig(args)
            s    == args.scheduler
        IN  /\ result.ok
            /\ \A key \in DOMAIN result.conf :
                  IF KVWriters(toks, key) # {}
                  THEN result.conf[key] =
                          Prefix(key, s) \o ValOf(toks[Last(KVWriters(toks, key))])
                  ELSE Writers(toks, key, s) = {} =>
                          key \in DOMAIN base /\ result.conf[key] = base[key]

\* C5 amended: every key holds what the last sub-token that writes it wrote,
\* where key=value writes the prefix plus the value to key and the bare
\* noselect under pbspro writes its literal to cpu_and_mem; a key that no
\* sub-token writes holds its default (the request's queue for "queue"), and
\* the config has no other key.
C5_LastWriteWins ==
    (result.op = "config" /\ Scheduled(args)) =>
        LET toks == Flatten(args.resources)
            base == BaseConfig(args)
            s    == args.scheduler
            keys == DOMAIN base \cup
                    {KeyOf(toks[i]) : i \in {j \in 1..Len(toks) : EqCount(toks[j]) = 1}} \cup
                    {"cpu_and_mem"}
        IN  /\ result.ok
            /\ \A key \in keys :
                  IF Writers(toks, key, s) # {}
                  THEN /\ key \in DOMAIN result.conf
                       /\ result.conf[key] = Written(toks[Last(Writers(toks, key, s))], s)
                  ELSE IF key \in DOMAIN base
                  THEN key \in DOMAIN result.conf /\ result.conf[key] = base[key]
                  ELSE key \notin DOMAIN result.conf
            /\ DOMAIN result.conf \subseteq keys

C5_Witness ==
    /\ result.op = "config" /\ result.ok
    /\ args.scheduler = "pbspro" /\ args.queue = "q1"
    /\ args.resources = << << "cpu_and_mem", "=", "X", ";", "noselect" >> >>
    /\ result.conf["cpu_and_mem"] = NoselectLiteral

\* C6: a sub-token without exactly one "=" changes the config only when it is
\* the bare noselect under pbspro, which sets cpu_and_mem to its literal and
\* no other key; any other such sub-token, wherever it stands, raises nothing
\* and can be removed without changing the config.
C6_BareTokens ==
    (result.op = "config" /\ Scheduled(args)) =>
        LET toks == Flatten(args.resources)
            n    == Len(toks)
            s    == args.scheduler
            conf(ts) == _args_to_cromwell(WithTokens(args, ts)).conf
        IN  /\ result.ok
            /\ \A i \in 1..n :
                  (EqCount(toks[i]) # 1 /\ ~IsNoselect(toks[i], s)) =>
                      result.conf = conf(Without(toks, i))
            /\ (n > 0 /\ IsNoselect(toks[n], s)) =>
                  LET before == conf(SubSeq(toks, 1, n - 1))
                  IN  result.conf =
                         [k \in DOMAIN before \cup {"cpu_and_mem"} |->
                             IF k = "cpu_and_mem" THEN NoselectLiteral ELSE before[k]]

C6_Witness ==
    /\ result.op = "config" /\ result.ok
    /\ args.scheduler = "pbspro" /\ args.queue = "q1"
    /\ args.resources = << << "account", "=", "A1", "=", "A2", ";", "noselect" >> >>
    /\ result.conf = [BaseConfig(args) EXCEPT !["cpu_and_mem"] = NoselectLiteral]

\* C7 as stated: without a scheduler args_to_cromwell_cl returns a list with
\* the local concurrency flag; with any scheduler set it returns a list with
\* -Dbackend.default=<NAME> and without the local flag; the memory flag is in
\* both.
C7_ClArgsAnyScheduler ==
    result.op = "cl" =>
        /\ result.ok
        /\ MemoryFlag \in Elems(result.cl)
        /\ IF Truthy(args.scheduler)
           THEN /\ BackendFlag(args.scheduler) \in Elems(result.cl)
                /\ LocalFlag \notin Elems(result.cl)
           ELSE LocalFlag \in Elems(result.cl)

\* C7 amended: without a scheduler args_to_cromwell_cl returns the local
\* concurrency flag and the memory flag; with a supported scheduler and a
\* queue it returns the memory flag and -Dbackend.default=<NAME>, and no local
\* flag; with an unsupported scheduler, or a scheduler without a queue, it
\* raises the error of _args_to_cromwell and returns no list.
C7_ClArgs ==
    result.op = "cl" =>
        IF ~Truthy(args.scheduler)
        THEN result.ok /\ result.cl = << LocalFlag, MemoryFlag >>
        ELSE IF Scheduled(args)
        THEN result.ok /\ result.cl = << MemoryFlag, BackendFlag(args.scheduler) >>
        ELSE /\ ~result.ok /\ result.cl = << >>
             /\ result.err = IF UnsupportedScheduler(args) THEN ErrUnsupported(args)
                             ELSE ErrMissingQueue

C7_Witness ==
    /\ result.op = "cl" /\ result.ok
    /\ args.scheduler = "pbspro" /\ args.queue = "q1"
    /\ result.cl = << MemoryFlag, "-Dbackend.default=PBSPRO" >>

\* C8: a call of create_cromwell_config that follows a call with the same
\* request has the same outcome and the same text, and leaves the file as the
\* first call left it.
C8_Idempotent ==
    (result.op = "render" /\ previous.render) =>
        /\ result.ok = previous.ok /\ result.err = previous.err
        /\ result.text = previous.text
        /\ file = previous.file

C8_Witness ==
    /\ result.op = "render" /\ result.ok
    /\ previous.render /\ previous.ok
    /\ args.scheduler = "slurm"
    /\ args.resources = << << "account", "=", "A1" >>, << "noselect" >> >>
    /\ file.exists /\ file.data = result.text

\* C9: a call of create_cromwell_config that ends in an error leaves the file
\* as it found it, and a call that succeeds leaves its text in the file.
C9_FailureKeepsFile ==
    result.op = "render" =>
        IF result.ok THEN file = [exists |-> TRUE, data |-> result.text]
        ELSE file = previous.file

C9_Witness ==
    /\ result.op = "render" /\ ~result.ok
    /\ args.scheduler = "sge" /\ args.queue = "q1"
    /\ result.err = "ValueError: incomplete format key"
    /\ previous.file = OldFile /\ file = OldFile

\* C10: in a successful create_cromwell_config the values substituted for
\* docker_attrs, submit_docker, cwl_attrs and filesystem, in the scheduler
\* template and in the top-level template, are the fixed ones chosen by
\* no_container, work_dir is the work directory and hpc is no override's
\* value, whatever keys the overrides name.
C10_AuxFixed ==
    (result.op = "render" /\ result.ok) =>
        LET aux == AuxValues(args.no_container)
        IN  /\ \A k \in AuxKeys :
                  /\ k \in DOMAIN result.conf_args /\ result.conf_args[k] = aux[k]
                  /\ k \in DOMAIN result.main_config
                  /\ result.main_config[k] = << aux[k] >>
            /\ DOMAIN result.main_config = AuxKeys \cup {"hpc", "work_dir"}
            /\ result.main_config["work_dir"] = << WorkDir >>
            /\ \A tok \in Elems(Flatten(args.resources)) :
                  EqCount(tok) = 1 => result.main_config["hpc"] # << ValOf(tok) >>
            /\ ~Truthy(args.scheduler) => result.main_config["hpc"] = << "" >>

C10_Witness ==
    /\ result.op = "render" /\ result.ok
    /\ args.scheduler = "slurm" /\ ~args.no_container
    /\ args.resources = << << "docker_attrs", "=", "X", ";", "hpc", "=", "X" >> >>
    /\ result.conf_args["docker_attrs"] = "String? docker\n        String? docker_user"
    /\ result.conf_args["hpc"] = "X"
    /\ result.main_config["hpc"] # << "X" >>

=============================================================================
